---- MODULE Spec2Model ----
(***************************************************************************)
(* Handle lifecycle and memory-mapping state machine of the gdrcopy Python *)
(* bindings (python/build/lib/gdrcopy/gdrcopy.py): one GDRCopy instance,   *)
(* the GDRHandle objects it creates, and the native library libgdrapi.so   *)
(* behind them.  The native library is a black box whose every call        *)
(* returns a status chosen by the environment (0 or an error code).        *)
(***************************************************************************)
EXTENDS Integers, Sequences, FiniteSets, TLC

\* ------------------------------------------------------------------ bounds
MaxHandles == 1     \* GDRHandle objects (successful pins) in one run
MaxOpens == 2       \* driver contexts granted in one run
MemLen == 2         \* bytes of the pinned device range that are modelled
MaxMaps == 2        \* host mappings the library can hold at a time

\* --------------------------------------------------------------- constants
GDR_MAPPING_TYPE_NONE == 0
GDR_MAPPING_TYPE_WC == 1
GDR_PIN_FLAG_DEFAULT == 0
GDR_PIN_FLAG_FORCE_PCIE == 1
GDR_ATTR_USE_PERSISTENT_MAPPING == 1
GDR_ATTR_SUPPORT_PIN_FLAG_FORCE_PCIE == 2

\* ------------------------------------------------------------ input domains
Handles == 1..MaxHandles
PinAddrs == {4096}
PinSizes == {4096, 8192}
PinFlags == {GDR_PIN_FLAG_DEFAULT, GDR_PIN_FLAG_FORCE_PCIE}
MapSizes == {1, 4096}
CopySizes == 1..MemLen
Bytes == {0, 1}
Patterns == [1..MemLen -> Bytes]
HostPtrs == {256}
FreshBuffer == [i \in 1..MemLen |-> 0]     \* a newly allocated host buffer
Attrs == {GDR_ATTR_USE_PERSISTENT_MAPPING, GDR_ATTR_SUPPORT_PIN_FLAG_FORCE_PCIE}
FailCodes == {22}
Statuses == {0} \cup FailCodes

\* ------------------------------------------------------------ Python values
PyNone == [py |-> "None", v |-> 0]
PyPtr(a) == [py |-> "ptr", v |-> a]          \* cffi pointer cdata (gdr_t, void *)
PyStruct(t) == [py |-> "struct", v |-> t]    \* cffi gdr_mh_t struct cdata
PyInt(n) == [py |-> "int", v |-> n]

\* bool(x) as the guards of the bindings evaluate it: None is false, a
\* pointer cdata is true iff it is not NULL, a struct cdata is always true.
Truthy(x) ==
    CASE x.py = "None" -> FALSE
      [] x.py = "ptr" -> x.v # 0
      [] x.py = "int" -> x.v # 0
      [] x.py = "struct" -> TRUE
      [] x.py = "dict" -> TRUE

\* cffi's conversion of a call argument to the declared C type: None is
\* neither a gdr_t pointer nor a gdr_mh_t struct (TypeError before the call).
IsPtrArg(x) == x.py = "ptr"
IsStructArg(x) == x.py = "struct"

VARIABLES
    ctx_alive,      \* the GDRCopy instance has not been finalized
    ctx_handle,     \* GDRCopy._handle
    h_state,        \* per GDRHandle object: "absent", "live", "dead"
    h_handle,       \* GDRHandle._handle
    h_mapped_ptr,   \* GDRHandle._mapped_ptr
    h_mapped_size,  \* GDRHandle._mapped_size
    h_info,         \* GDRHandle._info
    drv,            \* state of the native library
    ncalls,         \* call counts of the native library
    last,           \* the last operation: what was called, what it did
    scen,           \* progress of the section 8 scenario, -1 when left
    rt              \* pin directly followed by unpin: what pin found

vars == <<ctx_alive, ctx_handle, h_state, h_handle, h_mapped_ptr,
          h_mapped_size, h_info, drv, ncalls, last, scen, rt>>

pyvars == <<ctx_handle, h_state, h_handle, h_mapped_ptr, h_mapped_size, h_info>>

\* ------------------------------------------------------- results of a call
Return(v) == [exc |-> "none", code |-> 0, val |-> v]
Raise(e, c) == [exc |-> e, code |-> c, val |-> PyNone]

\* _check_error(ret, msg): GDRError carrying ret when ret is not 0, else the
\* call goes on to produce okres.
check_error(ret, okres) == IF ret # 0 THEN Raise("GDRError", ret) ELSE okres

\* ------------------------------------------------------ the native library
\* One native call as the log keeps it: the function, the gdr_t and gdr_mh_t
\* it was given (0 when it takes none) and the status it returned.
Call(fn, g, mh, ret) == [fn |-> fn, g |-> g, mh |-> mh, ret |-> ret]

\* The status a native call returns: the one the environment chose, except
\* that a call the library cannot serve never returns 0.
Ret(valid, st) == IF valid THEN st ELSE IF st = 0 THEN 22 ELSE st

VaOf(mh) == 65536 * mh

Pinned(d, g, mh) == g \in d.open /\ \E p \in d.pins : p.mh = mh /\ p.g = g

\* gdr_t gdr_open(void): a fresh context reference, or NULL.
lib_gdr_open(d, st) ==
    IF st = 0 /\ d.nrefs < MaxOpens
    THEN [out |-> d.nrefs + 1,
          drv |-> [d EXCEPT !.nrefs = @ + 1, !.open = @ \cup {d.nrefs + 1}]]
    ELSE [out |-> 0, drv |-> d]

\* int gdr_close(gdr_t g)
lib_gdr_close(d, g, st) ==
    LET ret == Ret(g \in d.open, st)
    IN  [ret |-> ret,
         drv |-> IF ret = 0 THEN [d EXCEPT !.open = @ \ {g}] ELSE d]

\* int gdr_pin_buffer_v2(gdr_t g, unsigned long addr, size_t size,
\*                       uint32_t flags, gdr_mh_t *handle)
lib_gdr_pin_buffer_v2(d, g, addr, size, flags, st) ==
    LET ret == Ret(g \in d.open /\ d.npins < MaxHandles, st)
        tok == d.npins + 1
    IN  [ret |-> ret,
         out |-> IF ret = 0 THEN tok ELSE 0,
         drv |-> IF ret = 0
                 THEN [d EXCEPT !.npins = tok,
                                !.pins = @ \cup {[mh |-> tok, g |-> g, addr |-> addr,
                                                  size |-> size]}]
                 ELSE d]

\* int gdr_pin_buffer(gdr_t g, unsigned long addr, size_t size,
\*                    uint64_t p2p_token, uint32_t va_space, gdr_mh_t *handle)
lib_gdr_pin_buffer(d, g, addr, size, p2p_token, va_space, st) ==
    lib_gdr_pin_buffer_v2(d, g, addr, size, GDR_PIN_FLAG_DEFAULT, st)

\* int gdr_unpin_buffer(gdr_t g, gdr_mh_t handle)
lib_gdr_unpin_buffer(d, g, mh, st) ==
    LET ret == Ret(Pinned(d, g, mh), st)
    IN  [ret |-> ret,
         drv |-> IF ret = 0
                 THEN [d EXCEPT !.pins = {p \in @ : p.mh # mh}]
                 ELSE d]

\* int gdr_get_info_v2(gdr_t g, gdr_mh_t handle, gdr_info_v2_t *info)
lib_gdr_get_info_v2(d, g, mh, st) ==
    LET ret == Ret(Pinned(d, g, mh), st)
        p == CHOOSE p \in d.pins : p.mh = mh
        isMapped == \E m \in d.maps : m.mh = mh
    IN  [ret |-> ret,
         out |-> IF ret = 0
                 THEN [va |-> p.addr, mapped_size |-> p.size, page_size |-> 65536,
                       mapped |-> isMapped, wc_mapping |-> isMapped,
                       mapping_type |-> IF isMapped THEN GDR_MAPPING_TYPE_WC
                                        ELSE GDR_MAPPING_TYPE_NONE]
                 ELSE [va |-> 0, mapped_size |-> 0, page_size |-> 0,
                       mapped |-> FALSE, wc_mapping |-> FALSE,
                       mapping_type |-> GDR_MAPPING_TYPE_NONE],
         drv |-> d]

\* The lowest host address of the range of token mh that no mapping takes.
FreeVa(d, mh) ==
    LET taken(k) == \E m \in d.maps : m.va = VaOf(mh) + 4096 * k
        k0 == CHOOSE k \in 0..Cardinality(d.maps) :
                  ~taken(k) /\ \A j \in 0..(k - 1) : taken(j)
    IN  VaOf(mh) + 4096 * k0

\* int gdr_map(gdr_t g, gdr_mh_t handle, void **va, size_t size): a new host
\* mapping of the pinned range at a free address, whatever mappings of the
\* token exist already; it fails when the host address space is exhausted.
lib_gdr_map(d, g, mh, size, st) ==
    LET ret == Ret(Pinned(d, g, mh) /\ Cardinality(d.maps) < MaxMaps, st)
        va == FreeVa(d, mh)
    IN  [ret |-> ret,
         out |-> IF ret = 0 THEN va ELSE 0,
         drv |-> IF ret = 0
                 THEN [d EXCEPT !.maps = @ \cup {[mh |-> mh, va |-> va,
                                                  size |-> size]}]
                 ELSE d]

\* int gdr_unmap(gdr_t g, gdr_mh_t handle, void *va, size_t size)
lib_gdr_unmap(d, g, mh, va, size, st) ==
    LET ret == Ret(g \in d.open /\ [mh |-> mh, va |-> va, size |-> size] \in d.maps, st)
    IN  [ret |-> ret,
         drv |-> IF ret = 0
                 THEN [d EXCEPT !.maps = @ \ {[mh |-> mh, va |-> va, size |-> size]}]
                 ELSE d]

\* The first n bytes of a followed by the rest of b.
Splice(a, b, n) == [i \in 1..MemLen |-> IF i <= n THEN a[i] ELSE b[i]]

\* int gdr_copy_to_mapping(gdr_mh_t handle, void *map_d_ptr, const void *h_ptr,
\*                         size_t size): host is what the host buffer at h_ptr
\* holds; out is what it holds afterwards.
lib_gdr_copy_to_mapping(d, mh, map_d_ptr, h_ptr, size, host, st) ==
    LET ret == Ret(/\ h_ptr \in HostPtrs
                   /\ \E m \in d.maps : m.mh = mh /\ m.va = map_d_ptr /\ size <= m.size,
                   st)
    IN  [ret |-> ret,
         out |-> host,
         drv |-> IF ret = 0 THEN [d EXCEPT !.mem = Splice(host, @, size)] ELSE d]

\* int gdr_copy_from_mapping(gdr_mh_t handle, void *h_ptr, const void *map_d_ptr,
\*                           size_t size)
lib_gdr_copy_from_mapping(d, mh, h_ptr, map_d_ptr, size, host, st) ==
    LET ret == Ret(/\ h_ptr \in HostPtrs
                   /\ \E m \in d.maps : m.mh = mh /\ m.va = map_d_ptr /\ size <= m.size,
                   st)
    IN  [ret |-> ret,
         out |-> IF ret = 0 THEN Splice(d.mem, host, size) ELSE host,
         drv |-> d]

\* int gdr_get_callback_flag(gdr_t g, gdr_mh_t handle, int *flag)
lib_gdr_get_callback_flag(d, g, mh, flag, st) ==
    LET ret == Ret(Pinned(d, g, mh), st)
    IN  [ret |-> ret, out |-> IF ret = 0 THEN flag ELSE 0, drv |-> d]

\* int gdr_driver_get_version(gdr_t g, int *major, int *minor)
lib_gdr_driver_get_version(d, g, st) ==
    LET ret == Ret(g \in d.open, st)
    IN  [ret |-> ret, out |-> IF ret = 0 THEN <<2, 4>> ELSE <<0, 0>>, drv |-> d]

\* int gdr_get_attribute(gdr_t g, gdr_attr_t attr, int *v)
lib_gdr_get_attribute(d, g, attr, st) ==
    LET ret == Ret(g \in d.open /\ attr \in Attrs, st)
    IN  [ret |-> ret, out |-> IF ret = 0 THEN 1 ELSE 0, drv |-> d]

\* ------------------------------------------------------------ the scenario
\* Section 8: open, pin 4096 bytes at 0x1000 with default flags, get_info,
\* map(4096), get_info, unmap, unpin, close; the handle is the first one.
ScenSteps ==
    << [op |-> "open", h |-> 0, args |-> <<>>],
       [op |-> "pin_buffer_v2", h |-> 0, args |-> <<4096, 4096, GDR_PIN_FLAG_DEFAULT>>],
       [op |-> "get_info", h |-> 1, args |-> <<>>],
       [op |-> "map", h |-> 1, args |-> <<4096>>],
       [op |-> "get_info", h |-> 1, args |-> <<>>],
       [op |-> "unmap", h |-> 1, args |-> <<>>],
       [op |-> "unpin", h |-> 1, args |-> <<>>],
       [op |-> "close", h |-> 0, args |-> <<>>] >>

\* The scenario goes on by one step when the operation is its next one and
\* every native call the operation made succeeded; anything else leaves it.
ScenNext(k, op, h, args, calls) ==
    IF /\ k >= 0
       /\ k < Len(ScenSteps)
       /\ ScenSteps[k + 1] = [op |-> op, h |-> h, args |-> args]
       /\ \A i \in 1..Len(calls) : calls[i].ret = 0
    THEN k + 1
    ELSE -1

\* The native calls of one operation added to the call counts.
Counted(nc, calls) ==
    [unpin |-> [t \in Handles |->
                  nc.unpin[t] + Cardinality({i \in 1..Len(calls) :
                      calls[i].fn = "gdr_unpin_buffer" /\ calls[i].mh = t})],
     close |-> nc.close + Cardinality({i \in 1..Len(calls) :
                      calls[i].fn = "gdr_close"})]

\* Stage 1 right after a pin that returned a handle, with the library's pins,
\* its open contexts and GDRCopy._handle as they were before that pin; stage 2
\* when the very next operation is unpin on that handle; else idle.
RtIdle == [stage |-> 0, h |-> 0, pins |-> {}, open |-> {}, ctx |-> PyNone]

RtNext(m, op, h, res) ==
    IF op \in {"pin_buffer", "pin_buffer_v2"} /\ res.exc = "none"
    THEN [stage |-> 1, h |-> res.val.v, pins |-> drv.pins, open |-> drv.open,
          ctx |-> ctx_handle]
    ELSE IF op = "unpin" /\ m.stage = 1 /\ m.h = h
    THEN [m EXCEPT !.stage = 2]
    ELSE RtIdle

\* What every operation leaves behind: last (size: the size argument of a
\* copy; rep: the operation before it was the same method on the same object),
\* the call counts and the monitors.
FinishCopy(op, h, args, res, calls, buf) ==
    /\ last' = [op |-> op, h |-> h, res |-> res, calls |-> calls,
                size |-> IF op \in {"copy_to_mapping", "copy_from_mapping"}
                         THEN args[2] ELSE 0,
                buf |-> buf, rep |-> (last.op = op /\ last.h = h)]
    /\ ncalls' = Counted(ncalls, calls)
    /\ scen' = ScenNext(scen, op, h, args, calls)
    /\ rt' = RtNext(rt, op, h, res)

Finish(op, h, args, res, calls) == FinishCopy(op, h, args, res, calls, <<>>)

\* ------------------------------------------------------------ GDRHandle
\* Each method as a function of the fields it reads: the new field values,
\* the new library state, the result and the native calls made.

\* unpin that never reaches the library
unpin_guard_skips(tok) == FALSE

\* `if hasattr(self, '_handle') and self._handle:` of unpin
unpin_guard(tok) == Truthy(tok)

\* unpin that keeps the token
unpin_cleared_keeps(tok) == tok

\* `self._handle = None` of unpin
unpin_cleared(tok) == PyNone

unpin(tok, g, d, st) ==
    IF unpin_guard(tok)
    THEN IF ~(IsPtrArg(g) /\ IsStructArg(tok))
         THEN [handle |-> tok, drv |-> d, res |-> Raise("TypeError", 0), calls |-> <<>>]
         ELSE LET r == lib_gdr_unpin_buffer(d, g.v, tok.v, st)
              IN  [handle |-> unpin_cleared(tok), drv |-> r.drv,
                   res |-> check_error(r.ret, Return(PyNone)),
                   calls |-> <<Call("gdr_unpin_buffer", g.v, tok.v, r.ret)>>]
    ELSE [handle |-> tok, drv |-> d, res |-> Return(PyNone), calls |-> <<>>]

\* unmap that never reaches the library
unmap_guard_skips(ptr) == FALSE

\* `if hasattr(self, '_mapped_ptr') and self._mapped_ptr and hasattr(self,
\* '_mapped_size'):` of unmap
unmap_guard(ptr) == Truthy(ptr)

\* unmap that keeps the record when the native call failed
unmap_cleared_if_ok(ptr, ret) == IF ret = 0 THEN PyNone ELSE ptr

\* `self._mapped_ptr = None` of unmap, before _check_error(ret, ...)
unmap_cleared(ptr, ret) == PyNone

unmap(tok, ptr, size, g, d, st) ==
    IF unmap_guard(ptr)
    THEN IF ~(IsPtrArg(g) /\ IsStructArg(tok))
         THEN [mapped_ptr |-> ptr, mapped_size |-> size, drv |-> d,
               res |-> Raise("TypeError", 0), calls |-> <<>>]
         ELSE LET r == lib_gdr_unmap(d, g.v, tok.v, ptr.v, size, st)
              IN  [mapped_ptr |-> unmap_cleared(ptr, r.ret), mapped_size |-> 0,
                   drv |-> r.drv,
                   res |-> check_error(r.ret, Return(PyNone)),
                   calls |-> <<Call("gdr_unmap", g.v, tok.v, r.ret)>>]
    ELSE [mapped_ptr |-> ptr, mapped_size |-> size, drv |-> d,
          res |-> Return(PyNone), calls |-> <<>>]

\* map without its already-mapped check
map_guard_absent(ptr) == FALSE

\* `if self._mapped_ptr:` of map
map_guard(ptr) == Truthy(ptr)

map(tok, ptr, size, g, d, newsize, st) ==
    IF map_guard(ptr)
    THEN [mapped_ptr |-> ptr, mapped_size |-> size, drv |-> d,
          res |-> Raise("RuntimeError", 0), calls |-> <<>>]
    ELSE IF ~(IsPtrArg(g) /\ IsStructArg(tok))
    THEN [mapped_ptr |-> ptr, mapped_size |-> size, drv |-> d,
          res |-> Raise("TypeError", 0), calls |-> <<>>]
    ELSE LET r == lib_gdr_map(d, g.v, tok.v, newsize, st)
         IN  [mapped_ptr |-> IF r.ret = 0 THEN PyPtr(r.out) ELSE ptr,
              mapped_size |-> IF r.ret = 0 THEN newsize ELSE size,
              drv |-> r.drv,
              res |-> check_error(r.ret, Return(PyInt(r.out))),
              calls |-> <<Call("gdr_map", g.v, tok.v, r.ret)>>]

\* `if not self._info:` of get_info
get_info_guard(info) == ~Truthy(info)

get_info(tok, info, g, d, st) ==
    IF get_info_guard(info)
    THEN IF ~(IsPtrArg(g) /\ IsStructArg(tok))
         THEN [info |-> info, res |-> Raise("TypeError", 0), calls |-> <<>>]
         ELSE LET r == lib_gdr_get_info_v2(d, g.v, tok.v, st)
                  dict == [py |-> "dict", va |-> r.out.va,
                           mapped_size |-> r.out.mapped_size,
                           page_size |-> r.out.page_size,
                           mapped |-> r.out.mapped,
                           wc_mapping |-> r.out.wc_mapping,
                           mapping_type |-> r.out.mapping_type]
              IN  [info |-> IF r.ret = 0 THEN dict ELSE info,
                   res |-> check_error(r.ret, Return(dict)),
                   calls |-> <<Call("gdr_get_info_v2", g.v, tok.v, r.ret)>>]
    ELSE [info |-> info, res |-> Return(info), calls |-> <<>>]

\* the copies without their not-mapped check
copy_guard_absent(ptr) == FALSE

\* `if not self._mapped_ptr:` of copy_to_mapping and copy_from_mapping
copy_guard(ptr) == ~Truthy(ptr)

\* `_lib.gdr_copy_to_mapping(self._handle, self._mapped_ptr, h_ptr, size)`
copy_to_native(d, tok, ptr, h_ptr, size, host, st) ==
    lib_gdr_copy_to_mapping(d, tok.v, ptr.v, h_ptr, size, host, st)

\* copy_from_mapping calling the native copy of the other direction
copy_from_native_wrong(d, tok, ptr, h_ptr, size, host, st) ==
    lib_gdr_copy_to_mapping(d, tok.v, ptr.v, h_ptr, size, host, st)

\* `_lib.gdr_copy_from_mapping(self._handle, h_ptr, self._mapped_ptr, size)`
copy_from_native(d, tok, ptr, h_ptr, size, host, st) ==
    lib_gdr_copy_from_mapping(d, tok.v, h_ptr, ptr.v, size, host, st)

copy_to_mapping(tok, ptr, d, host_ptr, size, host, st) ==
    IF copy_guard(ptr)
    THEN [drv |-> d, hout |-> host, res |-> Raise("RuntimeError", 0), calls |-> <<>>]
    ELSE IF ~IsStructArg(tok)
    THEN [drv |-> d, hout |-> host, res |-> Raise("TypeError", 0), calls |-> <<>>]
    ELSE LET r == copy_to_native(d, tok, ptr, host_ptr, size, host, st)
         IN  [drv |-> r.drv, hout |-> r.out,
              res |-> check_error(r.ret, Return(PyNone)),
              calls |-> <<Call("gdr_copy_to_mapping", 0, tok.v, r.ret)>>]

copy_from_mapping(tok, ptr, d, host_ptr, size, host, st) ==
    IF copy_guard(ptr)
    THEN [drv |-> d, hout |-> host, res |-> Raise("RuntimeError", 0), calls |-> <<>>]
    ELSE IF ~IsStructArg(tok)
    THEN [drv |-> d, hout |-> host, res |-> Raise("TypeError", 0), calls |-> <<>>]
    ELSE LET r == copy_from_native(d, tok, ptr, host_ptr, size, host, st)
         IN  [drv |-> r.drv, hout |-> r.out,
              res |-> check_error(r.ret, Return(PyNone)),
              calls |-> <<Call("gdr_copy_from_mapping", 0, tok.v, r.ret)>>]

get_callback_flag(tok, g, d, flag, st) ==
    IF ~(IsPtrArg(g) /\ IsStructArg(tok))
    THEN [res |-> Raise("TypeError", 0), calls |-> <<>>]
    ELSE LET r == lib_gdr_get_callback_flag(d, g.v, tok.v, flag, st)
         IN  [res |-> check_error(r.ret, Return([py |-> "bool", v |-> r.out # 0])),
              calls |-> <<Call("gdr_get_callback_flag", g.v, tok.v, r.ret)>>]

\* __del__ that unpins before it unmaps
GDRHandle_del_unpin_first(tok, ptr, size, g, d, st1, st2) ==
    LET p == unpin(tok, g, d, st2)
        u == unmap(p.handle, ptr, size, g, p.drv, st1)
        raised == p.res.exc # "none"
    IN  [handle |-> p.handle,
         mapped_ptr |-> IF raised THEN ptr ELSE u.mapped_ptr,
         mapped_size |-> IF raised THEN size ELSE u.mapped_size,
         drv |-> IF raised THEN p.drv ELSE u.drv,
         res |-> IF raised THEN p.res ELSE u.res,
         calls |-> IF raised THEN p.calls ELSE p.calls \o u.calls]

\* __del__: `self.unmap()` then `self.unpin()`; an exception leaves __del__
\* at once and the interpreter ignores it. res keeps what was raised inside.
GDRHandle_del(tok, ptr, size, g, d, st1, st2) ==
    LET u == unmap(tok, ptr, size, g, d, st1)
        p == unpin(tok, g, u.drv, st2)
        raised == u.res.exc # "none"
    IN  [handle |-> IF raised THEN tok ELSE p.handle,
         mapped_ptr |-> u.mapped_ptr,
         mapped_size |-> u.mapped_size,
         drv |-> IF raised THEN u.drv ELSE p.drv,
         res |-> IF raised THEN u.res ELSE p.res,
         calls |-> IF raised THEN u.calls ELSE u.calls \o p.calls]

\* -------------------------------------------------------------- GDRCopy
\* open without its already-open check
open_guard_absent(g) == FALSE

\* `if self._handle:` of open
open_guard(g) == Truthy(g)

open(g, d, st) ==
    IF open_guard(g)
    THEN [handle |-> g, drv |-> d, res |-> Raise("RuntimeError", 0), calls |-> <<>>]
    ELSE LET r == lib_gdr_open(d, st)
         IN  [handle |-> PyPtr(r.out), drv |-> r.drv,
              res |-> IF ~Truthy(PyPtr(r.out)) THEN Raise("GDRError", -1)
                      ELSE Return(PyNone),
              calls |-> <<Call("gdr_open", 0, 0, IF r.out # 0 THEN 0 ELSE -1)>>]

\* `if hasattr(self, '_handle') and self._handle:` of close
close_guard(g) == Truthy(g)

\* close that keeps the reference when the native call failed
close_cleared_if_ok(g, ret) == IF ret = 0 THEN PyNone ELSE g

\* `self._handle = None` of close, before _check_error(ret, ...)
close_cleared(g, ret) == PyNone

close(g, d, st) ==
    IF close_guard(g)
    THEN LET r == lib_gdr_close(d, g.v, st)
         IN  [handle |-> close_cleared(g, r.ret), drv |-> r.drv,
              res |-> check_error(r.ret, Return(PyNone)),
              calls |-> <<Call("gdr_close", g.v, 0, r.ret)>>]
    ELSE [handle |-> g, drv |-> d, res |-> Return(PyNone), calls |-> <<>>]

\* the not-open check written as `if self._handle is None:`
not_open_guard_is_none(g) == g.py = "None"

\* `if not self._handle:` of pin_buffer, pin_buffer_v2 and get_attribute
not_open_guard(g) == ~Truthy(g)

\* tok is 0 when no GDRHandle is created.
pin_buffer(g, d, addr, size, p2p_token, va_space, st) ==
    IF not_open_guard(g)
    THEN [tok |-> 0, drv |-> d, res |-> Raise("RuntimeError", 0), calls |-> <<>>]
    ELSE LET r == lib_gdr_pin_buffer(d, g.v, addr, size, p2p_token, va_space, st)
         IN  [tok |-> r.out, drv |-> r.drv,
              res |-> check_error(r.ret, Return([py |-> "GDRHandle", v |-> r.out])),
              calls |-> <<Call("gdr_pin_buffer", g.v, r.out, r.ret)>>]

pin_buffer_v2(g, d, addr, size, flags, st) ==
    IF not_open_guard(g)
    THEN [tok |-> 0, drv |-> d, res |-> Raise("RuntimeError", 0), calls |-> <<>>]
    ELSE LET r == lib_gdr_pin_buffer_v2(d, g.v, addr, size, flags, st)
         IN  [tok |-> r.out, drv |-> r.drv,
              res |-> check_error(r.ret, Return([py |-> "GDRHandle", v |-> r.out])),
              calls |-> <<Call("gdr_pin_buffer_v2", g.v, r.out, r.ret)>>]

get_attribute(g, d, attr, st) ==
    IF not_open_guard(g)
    THEN [res |-> Raise("RuntimeError", 0), calls |-> <<>>]
    ELSE LET r == lib_gdr_get_attribute(d, g.v, attr, st)
         IN  [res |-> check_error(r.ret, Return(PyInt(r.out))),
              calls |-> <<Call("gdr_get_attribute", g.v, 0, r.ret)>>]

\* The module function get_driver_version(gdr_handle): it passes
\* gdr_handle._handle to the library as it is.
get_driver_version(g, d, st) ==
    IF ~IsPtrArg(g)
    THEN [res |-> Raise("TypeError", 0), calls |-> <<>>]
    ELSE LET r == lib_gdr_driver_get_version(d, g.v, st)
         IN  [res |-> check_error(r.ret, Return([py |-> "tuple", v |-> r.out])),
              calls |-> <<Call("gdr_driver_get_version", g.v, 0, r.ret)>>]

\* ------------------------------------------------------------------ state
Init ==
    /\ ctx_alive = TRUE
    /\ ctx_handle = PyNone
    /\ h_state = [h \in Handles |-> "absent"]
    /\ h_handle = [h \in Handles |-> PyNone]
    /\ h_mapped_ptr = [h \in Handles |-> PyNone]
    /\ h_mapped_size = [h \in Handles |-> 0]
    /\ h_info = [h \in Handles |-> PyNone]
    /\ drv = [open |-> {}, nrefs |-> 0, pins |-> {}, npins |-> 0, maps |-> {},
              mem |-> [i \in 1..MemLen |-> 0]]
    /\ ncalls = [unpin |-> [t \in Handles |-> 0], close |-> 0]
    /\ last = [op |-> "init", h |-> 0, res |-> Return(PyNone), calls |-> <<>>,
               size |-> 0, buf |-> <<>>, rep |-> FALSE]
    /\ scen = 0
    /\ rt = RtIdle

\* GDRHandle.__init__(gdr, handle) for the handle object of token tok
NewHandle(tok) ==
    /\ h_state' = [h_state EXCEPT ![tok] = "live"]
    /\ h_handle' = [h_handle EXCEPT ![tok] = PyStruct(tok)]
    /\ h_mapped_ptr' = [h_mapped_ptr EXCEPT ![tok] = PyNone]
    /\ h_mapped_size' = [h_mapped_size EXCEPT ![tok] = 0]
    /\ h_info' = [h_info EXCEPT ![tok] = PyNone]

\* ---------------------------------------------------------------- actions
\* copy_to_mapping reads the host buffer at host_ptr, which holds host;
\* copy_from_mapping writes a fresh host buffer. last.buf is what the host
\* buffer holds after the call.
Open(st) ==
    /\ ctx_alive
    /\ LET r == open(ctx_handle, drv, st)
       IN  /\ ctx_handle' = r.handle
           /\ drv' = r.drv
           /\ Finish("open", 0, <<>>, r.res, r.calls)
    /\ UNCHANGED <<ctx_alive, h_state, h_handle, h_mapped_ptr, h_mapped_size, h_info>>

Close(st) ==
    /\ ctx_alive
    /\ LET r == close(ctx_handle, drv, st)
       IN  /\ ctx_handle' = r.handle
           /\ drv' = r.drv
           /\ Finish("close", 0, <<>>, r.res, r.calls)
    /\ UNCHANGED <<ctx_alive, h_state, h_handle, h_mapped_ptr, h_mapped_size, h_info>>

\* GDRCopy.__del__: close(), whatever it raises is ignored. The instance is
\* finalized when nothing refers to it any more, or together with the handles
\* that refer to it when they all are garbage (a reference cycle): the cycle
\* collector may then run GDRCopy.__del__ before GDRHandle.__del__. No method
\* is called on a handle after that; its __del__ still runs.
CtxDel(st) ==
    /\ ctx_alive
    /\ LET r == close(ctx_handle, drv, st)
       IN  /\ ctx_handle' = r.handle
           /\ drv' = r.drv
           /\ Finish("GDRCopy.__del__", 0, <<>>, r.res, r.calls)
    /\ ctx_alive' = FALSE
    /\ UNCHANGED <<h_state, h_handle, h_mapped_ptr, h_mapped_size, h_info>>

PinBuffer(addr, size, st) ==
    /\ ctx_alive
    /\ LET r == pin_buffer(ctx_handle, drv, addr, size, 0, 0, st)
       IN  /\ drv' = r.drv
           /\ Finish("pin_buffer", 0, <<addr, size, 0, 0>>, r.res, r.calls)
           /\ IF r.tok # 0
              THEN NewHandle(r.tok)
              ELSE UNCHANGED <<h_state, h_handle, h_mapped_ptr, h_mapped_size, h_info>>
    /\ UNCHANGED <<ctx_alive, ctx_handle>>

PinBufferV2(addr, size, flags, st) ==
    /\ ctx_alive
    /\ LET r == pin_buffer_v2(ctx_handle, drv, addr, size, flags, st)
       IN  /\ drv' = r.drv
           /\ Finish("pin_buffer_v2", 0, <<addr, size, flags>>, r.res, r.calls)
           /\ IF r.tok # 0
              THEN NewHandle(r.tok)
              ELSE UNCHANGED <<h_state, h_handle, h_mapped_ptr, h_mapped_size, h_info>>
    /\ UNCHANGED <<ctx_alive, ctx_handle>>

GetAttribute(attr, st) ==
    /\ ctx_alive
    /\ LET r == get_attribute(ctx_handle, drv, attr, st)
       IN  Finish("get_attribute", 0, <<attr>>, r.res, r.calls)
    /\ UNCHANGED <<ctx_alive, pyvars, drv>>

GetDriverVersion(st) ==
    /\ ctx_alive
    /\ LET r == get_driver_version(ctx_handle, drv, st)
       IN  Finish("get_driver_version", 0, <<>>, r.res, r.calls)
    /\ UNCHANGED <<ctx_alive, pyvars, drv>>

Unpin(h, st) ==
    /\ ctx_alive
    /\ h_state[h] = "live"
    /\ LET r == unpin(h_handle[h], ctx_handle, drv, st)
       IN  /\ h_handle' = [h_handle EXCEPT ![h] = r.handle]
           /\ drv' = r.drv
           /\ Finish("unpin", h, <<>>, r.res, r.calls)
    /\ UNCHANGED <<ctx_alive, ctx_handle, h_state, h_mapped_ptr, h_mapped_size, h_info>>

GetInfo(h, st) ==
    /\ ctx_alive
    /\ h_state[h] = "live"
    /\ LET r == get_info(h_handle[h], h_info[h], ctx_handle, drv, st)
       IN  /\ h_info' = [h_info EXCEPT ![h] = r.info]
           /\ Finish("get_info", h, <<>>, r.res, r.calls)
    /\ UNCHANGED <<ctx_alive, ctx_handle, h_state, h_handle, h_mapped_ptr,
                   h_mapped_size, drv>>

Map(h, size, st) ==
    /\ ctx_alive
    /\ h_state[h] = "live"
    /\ LET r == map(h_handle[h], h_mapped_ptr[h], h_mapped_size[h], ctx_handle, drv,
                    size, st)
       IN  /\ h_mapped_ptr' = [h_mapped_ptr EXCEPT ![h] = r.mapped_ptr]
           /\ h_mapped_size' = [h_mapped_size EXCEPT ![h] = r.mapped_size]
           /\ drv' = r.drv
           /\ Finish("map", h, <<size>>, r.res, r.calls)
    /\ UNCHANGED <<ctx_alive, ctx_handle, h_state, h_handle, h_info>>

Unmap(h, st) ==
    /\ ctx_alive
    /\ h_state[h] = "live"
    /\ LET r == unmap(h_handle[h], h_mapped_ptr[h], h_mapped_size[h], ctx_handle, drv, st)
       IN  /\ h_mapped_ptr' = [h_mapped_ptr EXCEPT ![h] = r.mapped_ptr]
           /\ h_mapped_size' = [h_mapped_size EXCEPT ![h] = r.mapped_size]
           /\ drv' = r.drv
           /\ Finish("unmap", h, <<>>, r.res, r.calls)
    /\ UNCHANGED <<ctx_alive, ctx_handle, h_state, h_handle, h_info>>

CopyToMapping(h, host_ptr, size, host, st) ==
    /\ ctx_alive
    /\ h_state[h] = "live"
    /\ LET r == copy_to_mapping(h_handle[h], h_mapped_ptr[h], drv, host_ptr, size,
                                host, st)
       IN  /\ drv' = r.drv
           /\ FinishCopy("copy_to_mapping", h, <<host_ptr, size>>, r.res, r.calls,
                         r.hout)
    /\ UNCHANGED <<ctx_alive, pyvars>>

CopyFromMapping(h, host_ptr, size, st) ==
    /\ ctx_alive
    /\ h_state[h] = "live"
    /\ LET r == copy_from_mapping(h_handle[h], h_mapped_ptr[h], drv, host_ptr, size,
                                  FreshBuffer, st)
       IN  /\ drv' = r.drv
           /\ FinishCopy("copy_from_mapping", h, <<host_ptr, size>>, r.res, r.calls,
                         r.hout)
    /\ UNCHANGED <<ctx_alive, pyvars>>

GetCallbackFlag(h, flag, st) ==
    /\ ctx_alive
    /\ h_state[h] = "live"
    /\ LET r == get_callback_flag(h_handle[h], ctx_handle, drv, flag, st)
       IN  Finish("get_callback_flag", h, <<>>, r.res, r.calls)
    /\ UNCHANGED <<ctx_alive, pyvars, drv>>

\* The garbage collector finalizes the GDRHandle object h.
Del(h, st1, st2) ==
    /\ h_state[h] = "live"
    /\ LET r == GDRHandle_del(h_handle[h], h_mapped_ptr[h], h_mapped_size[h],
                              ctx_handle, drv, st1, st2)
       IN  /\ h_mapped_ptr' = [h_mapped_ptr EXCEPT ![h] = r.mapped_ptr]
           /\ h_mapped_size' = [h_mapped_size EXCEPT ![h] = r.mapped_size]
           /\ h_handle' = [h_handle EXCEPT ![h] = r.handle]
           /\ drv' = r.drv
           /\ Finish("GDRHandle.__del__", h, <<>>, r.res, r.calls)
    /\ h_state' = [h_state EXCEPT ![h] = "dead"]
    /\ UNCHANGED <<ctx_alive, ctx_handle, h_info>>

\* Every operation, with the host byte patterns drawn from P and the statuses
\* of the native calls other than the two copies drawn from S.
NextWith(P, S) ==
    \/ \E st \in S : Open(st)
    \/ \E st \in S : Close(st)
    \/ \E st \in S : CtxDel(st)
    \/ \E a \in PinAddrs, n \in PinSizes, st \in S : PinBuffer(a, n, st)
    \/ \E a \in PinAddrs, n \in PinSizes, f \in PinFlags, st \in S :
          PinBufferV2(a, n, f, st)
    \/ \E attr \in Attrs, st \in S : GetAttribute(attr, st)
    \/ \E st \in S : GetDriverVersion(st)
    \/ \E h \in Handles, st \in S : Unpin(h, st)
    \/ \E h \in Handles, st \in S : GetInfo(h, st)
    \/ \E h \in Handles, n \in MapSizes, st \in S : Map(h, n, st)
    \/ \E h \in Handles, st \in S : Unmap(h, st)
    \/ \E h \in Handles, p \in HostPtrs, n \in CopySizes, b \in P, st \in Statuses :
          CopyToMapping(h, p, n, b, st)
    \/ \E h \in Handles, p \in HostPtrs, n \in CopySizes, st \in Statuses :
          CopyFromMapping(h, p, n, st)
    \/ \E h \in Handles, f \in {0, 1}, st \in S : GetCallbackFlag(h, f, st)
    \/ \E h \in Handles, st1 \in S, st2 \in S : Del(h, st1, st2)

\* The lifecycle: every native call may fail; the host buffers hold zeros.
Next == NextWith({FreshBuffer}, Statuses)

Spec == Init /\ [][Next]_vars

\* The data path: every byte pattern; only the copies may fail.
NextCopy == NextWith(Patterns, {0})

SpecCopy == Init /\ [][NextCopy]_vars

\* ------------------------------------------------------------------ claims
IsMapped(h) == Truthy(h_mapped_ptr[h])
Ok(l) == l.res.exc = "none"

\* C1: on a handle with a live mapping every map call, whatever its size and
\* however often it is retried, raises the already-mapped RuntimeError, makes
\* no native call and leaves the recorded address and size as they were; the
\* mapping record goes away only in an unmap on that handle (called by the
\* user or by __del__).
C1_MapOnMappedFails ==
    [][\A h \in Handles :
        /\ (last'.op = "map" /\ last'.h = h /\ IsMapped(h))
              => /\ last'.res = Raise("RuntimeError", 0)
                 /\ last'.calls = <<>>
                 /\ h_mapped_ptr'[h] = h_mapped_ptr[h]
                 /\ h_mapped_size'[h] = h_mapped_size[h]
                 /\ drv' = drv
        /\ (IsMapped(h) /\ ~Truthy(h_mapped_ptr'[h]))
              => /\ last'.op \in {"unmap", "GDRHandle.__del__"}
                 /\ last'.h = h]_vars

\* C1 witness: a map retried on a mapped handle was refused.
C1_Witness ==
    /\ last.op = "map"
    /\ last.rep
    /\ last.res.exc = "RuntimeError"
    /\ IsMapped(last.h)
    /\ h_mapped_size[last.h] = 1

\* C2: unmap on a handle with no mapping record, or called again directly
\* after an unmap on the same handle, raises nothing, makes no native call and
\* changes nothing of the handle or the library.
C2_UnmapIdempotent ==
    [][\A h \in Handles :
        (last'.op = "unmap" /\ last'.h = h /\ (~IsMapped(h) \/ last'.rep))
           => /\ Ok(last')
              /\ last'.calls = <<>>
              /\ h_mapped_ptr'[h] = h_mapped_ptr[h]
              /\ h_mapped_size'[h] = h_mapped_size[h]
              /\ h_handle'[h] = h_handle[h]
              /\ drv' = drv]_vars

\* C3: an unpin directly after an unpin on the same handle that returned or
\* raised GDRError raises nothing and makes no native call, and the library
\* is asked to unpin a token at most once in all.
C3_UnpinIdempotent ==
    /\ [][\A h \in Handles :
           (/\ last.op = "unpin" /\ last.h = h
            /\ last.res.exc \in {"none", "GDRError"}
            /\ last'.op = "unpin" /\ last'.h = h)
              => /\ Ok(last')
                 /\ last'.calls = <<>>
                 /\ h_handle'[h] = h_handle[h]
                 /\ drv' = drv]_vars
    /\ [](\A h \in Handles : ncalls.unpin[h] <= 1)

\* C3 witness: the second of two unpins in a row, the first of which raised
\* GDRError after its native call.
C3_Witness ==
    /\ last.op = "unpin"
    /\ last.rep
    /\ Ok(last)
    /\ last.calls = <<>>
    /\ ncalls.unpin[last.h] = 1
    /\ \E p \in drv.pins : p.mh = last.h

\* C4: the 'mapped' flag a successful get_info returns is the library's
\* mapping state of the handle at the time of the call.
C4_GetInfoCurrent ==
    (last.op = "get_info" /\ Ok(last))
       => (last.res.val.mapped <=> \E m \in drv.maps : m.mh = last.h)

\* C5: on a library whose every call succeeds, no step of the section 8
\* scenario raises, map returns a non-zero address, and at the end the
\* context is closed, the handle has neither token nor mapping record and the
\* library holds no open context, no pin and no mapping.
C5_Scenario ==
    /\ scen >= 1 => Ok(last)
    /\ scen = 4 => (last.res.val.py = "int" /\ last.res.val.v # 0)
    /\ scen = Len(ScenSteps)
          => /\ ~Truthy(ctx_handle)
             /\ ~Truthy(h_handle[1])
             /\ ~Truthy(h_mapped_ptr[1])
             /\ h_mapped_size[1] = 0
             /\ drv.open = {}
             /\ drv.pins = {}
             /\ drv.maps = {}

\* C5 witness: the scenario ran to its end.
C5_Witness == scen = Len(ScenSteps) /\ last.op = "close"

\* C6: open on an open context raises the already-open RuntimeError, makes no
\* native call and leaves GDRCopy._handle and the library as they were; the
\* references gdr_open granted and gdr_close was not yet given are at most
\* one, and there is one exactly when the context is open.
C6_OpenTwice ==
    /\ [][(last'.op = "open" /\ Truthy(ctx_handle))
             => /\ last'.res = Raise("RuntimeError", 0)
                /\ last'.calls = <<>>
                /\ ctx_handle' = ctx_handle
                /\ drv' = drv]_vars
    /\ [](/\ drv.nrefs - ncalls.close \in {0, 1}
          /\ Truthy(ctx_handle) <=> drv.nrefs - ncalls.close = 1
          /\ Truthy(ctx_handle) => ctx_handle.v \in drv.open)

\* C6 witness: a second open on an open context was refused.
C6_Witness ==
    /\ last.op = "open"
    /\ last.res.exc = "RuntimeError"
    /\ Truthy(ctx_handle)
    /\ drv.nrefs = 1

\* C7: pin_buffer, pin_buffer_v2 and get_attribute on a context that is not
\* open (never opened, closed, or left with the NULL of a failed open) raise
\* the not-open RuntimeError, make no native call and create no handle.
C7_NotOpen ==
    [][(/\ last'.op \in {"pin_buffer", "pin_buffer_v2", "get_attribute"}
        /\ ~Truthy(ctx_handle))
          => /\ last'.res = Raise("RuntimeError", 0)
             /\ last'.calls = <<>>
             /\ h_state' = h_state
             /\ h_handle' = h_handle
             /\ drv' = drv]_vars

\* C7 witness: a pin refused on the context a failed open left behind.
C7_Witness ==
    /\ last.op = "pin_buffer_v2"
    /\ last.res.exc = "RuntimeError"
    /\ ctx_handle = PyPtr(0)

\* C8: when unpin directly follows the pin that created the handle, the
\* library was asked exactly once to unpin that token, under the context
\* reference it was pinned with; GDRCopy._handle and the library's open
\* contexts are as before the pin, the token is cleared, and when that native
\* unpin succeeded the library's pins are exactly those it had before the pin.
C8_PinUnpin ==
    rt.stage = 2
       => /\ last.op = "unpin" /\ last.h = rt.h
          /\ Len(last.calls) = 1
          /\ last.calls[1].fn = "gdr_unpin_buffer"
          /\ last.calls[1].g = rt.ctx.v
          /\ last.calls[1].mh = rt.h
          /\ ncalls.unpin[rt.h] = 1
          /\ ctx_handle = rt.ctx
          /\ Truthy(ctx_handle)
          /\ drv.open = rt.open
          /\ ~Truthy(h_handle[rt.h])
          /\ last.calls[1].ret = 0 => (Ok(last) /\ drv.pins = rt.pins)

\* C8 witness: pin then unpin, both returned.
C8_Witness == rt.stage = 2 /\ Ok(last) /\ drv.pins = rt.pins

\* C9: copy_to_mapping and copy_from_mapping on a handle with no mapping
\* record raise the not-mapped RuntimeError and make no native call; the
\* device bytes stay as they were and the host buffer is not written.
C9_CopyNotMapped ==
    [][\A h \in Handles :
        (/\ last'.op \in {"copy_to_mapping", "copy_from_mapping"}
         /\ last'.h = h
         /\ ~IsMapped(h))
           => /\ last'.res = Raise("RuntimeError", 0)
              /\ last'.calls = <<>>
              /\ drv' = drv
              /\ last'.op = "copy_from_mapping" => last'.buf = FreshBuffer]_vars

\* C9 witness: a copy_from_mapping refused after unmap while the device range
\* holds bytes other than those of the host buffer.
C9_Witness ==
    /\ last.op = "copy_from_mapping"
    /\ last.res.exc = "RuntimeError"
    /\ ~IsMapped(last.h)
    /\ drv.mem # FreshBuffer

\* C10: when copy_to_mapping of n bytes returned and copy_from_mapping of n
\* bytes on the same handle follows it directly and returns, the first n bytes
\* of the fresh destination buffer are those of the source buffer.
C10_RoundTrip ==
    [][(/\ last.op = "copy_to_mapping" /\ Ok(last)
        /\ last'.op = "copy_from_mapping" /\ Ok(last')
        /\ last'.h = last.h
        /\ last'.size = last.size)
          => \A i \in 1..last.size : last'.buf[i] = last.buf[i]]_vars

\* C10 witness: a copy_from_mapping of every modelled byte read back a
\* pattern that is not the fresh buffer's.
C10_Witness ==
    /\ last.op = "copy_from_mapping"
    /\ Ok(last)
    /\ last.size = MemLen
    /\ \A i \in 1..MemLen : last.buf[i] = 1

\* The mappings the library holds for the token of handle h.
DrvMaps(h) == {m \in drv.maps : m.mh = h}

\* C11: the library never holds two mappings made through one handle.
C11_AtMostOneMapping ==
    \A h \in Handles : Cardinality(DrvMaps(h)) <= 1

\* C12: a handle whose token unpin has cleared has no mapping record, and the
\* library holds no mapping of its token.
C12_NoMappingSurvivesUnpin ==
    \A h \in Handles :
        (h_state[h] # "absent" /\ ~Truthy(h_handle[h]))
           => (~IsMapped(h) /\ DrvMaps(h) = {})

\* The library was asked to unpin the token of handle h.
UnpinIssued(h) == ncalls.unpin[h] >= 1

\* C13: once the library was asked to unpin a handle's token, the handle has
\* no token, no later operation makes a native call that carries the token,
\* the handle never gets a token again and never gains a mapping record.
C13_NoUseAfterUnpin ==
    /\ [](\A h \in Handles : UnpinIssued(h) => ~Truthy(h_handle[h]))
    /\ [][\A h \in Handles :
            UnpinIssued(h)
               => /\ \A i \in 1..Len(last'.calls) : last'.calls[i].mh # h
                  /\ ~Truthy(h_handle'[h])
                  /\ ~IsMapped(h) => ~Truthy(h_mapped_ptr'[h])]_vars

\* C13 witness: a map on an unpinned handle was stopped before the library.
C13_Witness ==
    /\ last.op = "map"
    /\ UnpinIssued(last.h)
    /\ last.res.exc = "TypeError"
    /\ last.calls = <<>>
    /\ ~IsMapped(last.h)

\* C14: an unmap whose native call fails raises GDRError with the status of
\* that call and leaves no mapping record; directly after it, an unmap on the
\* handle returns without a native call and changes nothing, and a copy on
\* the handle raises the not-mapped RuntimeError without a native call.
C14_UnmapFailureClears ==
    [][\A h \in Handles :
        /\ (/\ last'.op = "unmap" /\ last'.h = h
            /\ Len(last'.calls) = 1
            /\ last'.calls[1].ret # 0)
              => /\ IsMapped(h)
                 /\ last'.calls[1].fn = "gdr_unmap"
                 /\ last'.res = Raise("GDRError", last'.calls[1].ret)
                 /\ ~Truthy(h_mapped_ptr'[h])
                 /\ h_mapped_size'[h] = 0
        /\ (/\ last.op = "unmap" /\ last.h = h
            /\ last.res.exc = "GDRError"
            /\ last'.h = h)
              => /\ last'.op = "unmap"
                    => /\ Ok(last')
                       /\ last'.calls = <<>>
                       /\ drv' = drv
                       /\ pyvars' = pyvars
                 /\ last'.op \in {"copy_to_mapping", "copy_from_mapping"}
                    => /\ last'.res = Raise("RuntimeError", 0)
                       /\ last'.calls = <<>>
                       /\ drv' = drv]_vars

\* C14 witness: an unmap raised GDRError, the record is gone and the library
\* still holds the mapping.
C14_Witness ==
    /\ last.op = "unmap"
    /\ last.res.exc = "GDRError"
    /\ last.res.code = 22
    /\ ~IsMapped(last.h)
    /\ DrvMaps(last.h) # {}

\* C15: an unpin whose native call fails raises GDRError with the status of
\* that call and leaves the handle without token; once the library was asked
\* to unpin a token it is never asked again.
C15_UnpinFailureClears ==
    [][\A h \in Handles :
        /\ (/\ last'.op = "unpin" /\ last'.h = h
            /\ Len(last'.calls) = 1
            /\ last'.calls[1].ret # 0)
              => /\ Truthy(h_handle[h])
                 /\ last'.calls[1].fn = "gdr_unpin_buffer"
                 /\ last'.res = Raise("GDRError", last'.calls[1].ret)
                 /\ h_handle'[h] = PyNone
        /\ UnpinIssued(h) => ncalls'.unpin[h] = ncalls.unpin[h]]_vars

\* C15 witness: an unpin raised GDRError, the token is gone and the library
\* still holds the pin.
C15_Witness ==
    /\ last.op = "unpin"
    /\ last.res.exc = "GDRError"
    /\ last.res.code = 22
    /\ h_handle[last.h] = PyNone
    /\ \E p \in drv.pins : p.mh = last.h

\* C16: close on an open context makes exactly one gdr_close with the
\* context's reference, leaves the context closed whatever that call returns
\* and raises GDRError with its status when it is not 0; close on a context
\* that is not open returns without a native call and changes nothing; an
\* open directly after a close is not refused and reaches gdr_open.
C16_CloseLeavesClosed ==
    [][/\ (last'.op = "close" /\ Truthy(ctx_handle))
             => /\ Len(last'.calls) = 1
                /\ last'.calls[1].fn = "gdr_close"
                /\ last'.calls[1].g = ctx_handle.v
                /\ ncalls'.close = ncalls.close + 1
                /\ last'.res = check_error(last'.calls[1].ret, Return(PyNone))
                /\ ~Truthy(ctx_handle')
       /\ (last'.op = "close" /\ ~Truthy(ctx_handle))
             => /\ Ok(last')
                /\ last'.calls = <<>>
                /\ ctx_handle' = ctx_handle
                /\ drv' = drv
       /\ (last.op = "close" /\ last'.op = "open")
             => /\ last'.res.exc # "RuntimeError"
                /\ Len(last'.calls) = 1
                /\ last'.calls[1].fn = "gdr_open"]_vars

\* C16 witness: a close raised GDRError, the context is closed and the
\* library still holds its reference.
C16_Witness ==
    /\ last.op = "close"
    /\ last.res.exc = "GDRError"
    /\ ctx_handle = PyNone
    /\ drv.open # {}

\* C17: get_driver_version for a context that is not open raises and makes no
\* native call.
C17_VersionNeedsOpen ==
    [][(last'.op = "get_driver_version" /\ ~Truthy(ctx_handle))
          => /\ last'.res.exc # "none"
             /\ last'.calls = <<>>]_vars

\* C18: get_info on a handle whose token unpin has cleared raises GDRError.
C18_GetInfoAfterUnpin ==
    [][\A h \in Handles :
        (last'.op = "get_info" /\ last'.h = h /\ UnpinIssued(h))
           => last'.res.exc = "GDRError"]_vars

\* The method op of handle h goes past its own checks to its native call.
ReachesDriver(op, h) ==
    \/ op = "map" /\ ~map_guard(h_mapped_ptr[h])
    \/ op = "unmap" /\ unmap_guard(h_mapped_ptr[h])
    \/ op = "unpin" /\ unpin_guard(h_handle[h])
    \/ op = "get_info" /\ get_info_guard(h_info[h])
    \/ op = "get_callback_flag"

\* C19: while the context is closed and handle h still has its token, every
\* method of h that goes on to its native call raises GDRError.
C19_OrphanedHandle ==
    [][\A h \in Handles :
        (/\ ctx_handle = PyNone
         /\ Truthy(h_handle[h])
         /\ last'.h = h
         /\ ReachesDriver(last'.op, h))
           => last'.res.exc = "GDRError"]_vars

\* C20: __del__ on a handle with token and mapping record, under an open
\* context and with every native call it makes returning 0, makes gdr_unmap
\* and then gdr_unpin_buffer, once each, and leaves the handle without record
\* and without token and the library without the recorded mapping and the
\* pin; __del__ on a handle with neither record nor token makes no native
\* call.
C20_DestructorOrder ==
    [][\A h \in Handles :
        (last'.op = "GDRHandle.__del__" /\ last'.h = h)
           => /\ (/\ IsMapped(h)
                  /\ Truthy(h_handle[h])
                  /\ Truthy(ctx_handle)
                  /\ \A i \in 1..Len(last'.calls) : last'.calls[i].ret = 0)
                    => /\ last'.calls = <<Call("gdr_unmap", ctx_handle.v, h, 0),
                                          Call("gdr_unpin_buffer", ctx_handle.v, h, 0)>>
                       /\ ~Truthy(h_mapped_ptr'[h])
                       /\ h_mapped_size'[h] = 0
                       /\ ~Truthy(h_handle'[h])
                       /\ drv'.maps = drv.maps \ {[mh |-> h, va |-> h_mapped_ptr[h].v,
                                                    size |-> h_mapped_size[h]]}
                       /\ [mh |-> h, va |-> h_mapped_ptr[h].v,
                           size |-> h_mapped_size[h]] \in drv.maps
                       /\ ~\E p \in drv'.pins : p.mh = h
              /\ (~IsMapped(h) /\ ~Truthy(h_handle[h]))
                    => /\ last'.calls = <<>>
                       /\ drv' = drv]_vars

\* C20 witness: __del__ made both native calls and both returned 0.
C20_Witness ==
    /\ last.op = "GDRHandle.__del__"
    /\ Len(last.calls) = 2
    /\ Ok(last)
    /\ h_state[last.h] = "dead"
    /\ drv.pins = {}
    /\ drv.maps = {}

\* C21: when __del__ runs on a handle with token and mapping record and its
\* gdr_unmap fails, it still goes on to gdr_unpin_buffer and leaves the
\* handle without token.
C21_DestructorCompletes ==
    [][\A h \in Handles :
        (/\ last'.op = "GDRHandle.__del__" /\ last'.h = h
         /\ IsMapped(h)
         /\ Truthy(h_handle[h])
         /\ Len(last'.calls) >= 1
         /\ last'.calls[1].fn = "gdr_unmap"
         /\ last'.calls[1].ret # 0)
           => /\ Len(last'.calls) = 2
              /\ last'.calls[2].fn = "gdr_unpin_buffer"
              /\ last'.calls[2].mh = h
              /\ ~Truthy(h_handle'[h])]_vars

\* The native functions that take the gdr_t and the gdr_mh_t of a handle.
HandleCalls ==
    {"gdr_unpin_buffer", "gdr_get_info_v2", "gdr_map", "gdr_unmap",
     "gdr_get_callback_flag"}

\* C22: every native call made for a handle carries the context reference
\* its token was pinned with.
C22_PinningSession ==
    [][\A h \in Handles : \A i \in 1..Len(last'.calls) :
        (last'.calls[i].fn \in HandleCalls /\ last'.calls[i].mh = h)
           => \E p \in drv.pins : p.mh = h /\ p.g = last'.calls[i].g]_vars

====
